---- MODULE Spec2Model ----
(***************************************************************************)
(* scripts/review-hotspots.py: a one-pass batch that marks a fixed table   *)
(* of SonarCloud security hotspots as REVIEWED/SAFE.                       *)
(*                                                                         *)
(* The module-level statements of the script are the state machine:        *)
(*   lines 8-12   credential check                                         *)
(*   lines 37-95  one review(...) call per table row                       *)
(*   lines 97-98  summary                                                  *)
(* review() is split at the blocking urllib.request.urlopen call (line 30) *)
(* into the part that builds and sends the request and the part that runs  *)
(* once the call has returned or raised.                                   *)
(*                                                                         *)
(* Text that the script only passes around (keys, comments, labels, error  *)
(* messages, printed lines) is a TLA+ string.  Text that the script        *)
(* transforms (the token: str -> UTF-8 bytes -> base64 text) is a sequence *)
(* of code points / byte values / one-character strings, so that the       *)
(* transformation is computed and not assumed.                             *)
(***************************************************************************)
EXTENDS Integers, Sequences, FiniteSets, TLC

(* ---- bounds of the model ---------------------------------------------- *)

(* Longest SONAR_TOKEN value, in characters. *)
MaxTokenLen == 1

(* Number of consecutive table rows whose HTTP call may go either way      *)
(* (return, or raise any of Errors); see Nets.                             *)
OutageLen == 2

(* ---- program constants ------------------------------------------------ *)

(* line 14 *)
API == "https://sonarcloud.io/api/hotspots/change_status"

(* The call table, lines 37-95: one row per review(key, resolution, comment, label)
   call, in source order. *)
Table ==
  <<
    [key |-> "AZtta9QmToFX3SmMQ7bJ", resolution |-> "SAFE",
     comment |-> "Safe: form field variable names (password, newPassword). UI input labels, not hardcoded credentials.",
     label |-> "src/components/EditProfile.tsx:244"],
    [key |-> "AZtta9QmToFX3SmMQ7bK", resolution |-> "SAFE",
     comment |-> "Safe: form field variable names (password, newPassword). UI input labels, not hardcoded credentials.",
     label |-> "src/components/EditProfile.tsx:246"],
    [key |-> "AZtta9QmToFX3SmMQ7bL", resolution |-> "SAFE",
     comment |-> "Safe: form field variable names (password, newPassword). UI input labels, not hardcoded credentials.",
     label |-> "src/components/EditProfile.tsx:250"],
    [key |-> "AZuMQzPTZIQvlZoniyXN", resolution |-> "SAFE",
     comment |-> "Safe: test fixture token in unit tests. Not a real credential.",
     label |-> "server/__tests__/authLogin.test.js:199"],
    [key |-> "AZwZ6l7DsWcbYLKTEKCA", resolution |-> "SAFE",
     comment |-> "Safe: variable names referencing password fields in config/logger. No actual secrets hardcoded.",
     label |-> "create_admin.js:30"],
    [key |-> "AZu6WjjnmfTcMxN9gFQI", resolution |-> "SAFE",
     comment |-> "Safe: variable names referencing password fields in config/logger. No actual secrets hardcoded.",
     label |-> "server/config/templateConfig.js:213"],
    [key |-> "AZu6WjjnmfTcMxN9gFQJ", resolution |-> "SAFE",
     comment |-> "Safe: variable names referencing password fields in config/logger. No actual secrets hardcoded.",
     label |-> "server/config/templateConfig.js:214"],
    [key |-> "AZxL7LqKoEmmv2ZGoJce", resolution |-> "SAFE",
     comment |-> "Safe: variable names referencing password fields in config/logger. No actual secrets hardcoded.",
     label |-> "server/middleware/adminActivityLogger.js:100"],
    [key |-> "AZuMKHzE0toT4C50HugK", resolution |-> "SAFE",
     comment |-> "Safe: simple bounded validation regex (NIP/NISN format). No nested quantifiers, not vulnerable to ReDoS.",
     label |-> "server/__tests__/siswa.test.js:51"],
    [key |-> "AZureTLYrVcAIc1a_eDS", resolution |-> "SAFE",
     comment |-> "Safe: simple bounded validation regex (NIP/NISN format). No nested quantifiers, not vulnerable to ReDoS.",
     label |-> "server/controllers/adminController.js:40"],
    [key |-> "AZureTERrVcAIc1a_eDN", resolution |-> "SAFE",
     comment |-> "Safe: simple bounded validation regex (NIP/NISN format). No nested quantifiers, not vulnerable to ReDoS.",
     label |-> "server/controllers/guruController.js:101"],
    [key |-> "AZvWL8Ouvyg5ykpamw3d", resolution |-> "SAFE",
     comment |-> "Safe: simple bounded validation regex (NIP/NISN format). No nested quantifiers, not vulnerable to ReDoS.",
     label |-> "server/controllers/siswaController.js:77"],
    [key |-> "AZwKi7OlPKS_rX1gUILF", resolution |-> "SAFE",
     comment |-> "Safe: simple bounded validation regex (NIP/NISN format). No nested quantifiers, not vulnerable to ReDoS.",
     label |-> "server/controllers/siswaController.js:381"],
    [key |-> "AZwKi7HuPKS_rX1gUIK-", resolution |-> "SAFE",
     comment |-> "Safe: simple bounded validation regex (NIP/NISN format). No nested quantifiers, not vulnerable to ReDoS.",
     label |-> "server/utils/downloadAccess.js:14"],
    [key |-> "AZuggQCdyOkfahxTWorw", resolution |-> "SAFE",
     comment |-> "Safe: simple bounded validation regex (NIP/NISN format). No nested quantifiers, not vulnerable to ReDoS.",
     label |-> "server/utils/importHelper.js:460"],
    [key |-> "AZus2zrCtnRoQq97Kx5p", resolution |-> "SAFE",
     comment |-> "Safe: simple bounded validation regex for form inputs. No nested quantifiers, not vulnerable to ReDoS.",
     label |-> "src/components/EditProfile.tsx:59"],
    [key |-> "AZu7ZtjaFUgiTSLLQf0M", resolution |-> "SAFE",
     comment |-> "Safe: simple bounded validation regex for form inputs. No nested quantifiers, not vulnerable to ReDoS.",
     label |-> "src/components/LoginForm.tsx:202"],
    [key |-> "AZvE9FnpfjGLNHbFrJUl", resolution |-> "SAFE",
     comment |-> "Safe: simple bounded validation regex for form inputs. No nested quantifiers, not vulnerable to ReDoS.",
     label |-> "src/components/admin/schedules/CloneScheduleView.tsx:82"],
    [key |-> "AZxPsP6RJp4avvT5vBvV", resolution |-> "SAFE",
     comment |-> "Safe: simple bounded validation regex for form inputs. No nested quantifiers, not vulnerable to ReDoS.",
     label |-> "src/components/admin/students/ManageStudentDataView.tsx:94"],
    [key |-> "AZvWL8Xyvyg5ykpamw3k", resolution |-> "SAFE",
     comment |-> "Safe: simple bounded validation regex for form inputs. No nested quantifiers, not vulnerable to ReDoS.",
     label |-> "src/components/admin/students/ManageStudentsView.tsx:145"],
    [key |-> "AZvAlyzv-ToM7us2c5Iz", resolution |-> "SAFE",
     comment |-> "Safe: simple bounded validation regex for form inputs. No nested quantifiers, not vulnerable to ReDoS.",
     label |-> "src/components/admin/teachers/ManageTeacherAccountsView.tsx:161"],
    [key |-> "AZvAly17-ToM7us2c5I-", resolution |-> "SAFE",
     comment |-> "Safe: simple bounded validation regex for form inputs. No nested quantifiers, not vulnerable to ReDoS.",
     label |-> "src/components/admin/teachers/ManageTeacherDataView.tsx:78"],
    [key |-> "AZtta9f_ToFX3SmMQ71_", resolution |-> "SAFE",
     comment |-> "Safe: COPY . . with .dockerignore excluding sensitive files. Standard Dockerfile pattern.",
     label |-> "Dockerfile:22"],
    [key |-> "AZtta9esToFX3SmMQ7zh", resolution |-> "SAFE",
     comment |-> "Safe: COPY . . with .dockerignore excluding sensitive files. Standard Dockerfile pattern.",
     label |-> "docker/nginx/Dockerfile:20"],
    [key |-> "AZvFb10AGX_5sAzcrR2c", resolution |-> "SAFE",
     comment |-> "Safe: COPY . . with .dockerignore excluding sensitive files. Standard Dockerfile pattern.",
     label |-> "docker/storybook/Dockerfile:13"],
    [key |-> "AZtta9f_ToFX3SmMQ72A", resolution |-> "SAFE",
     comment |-> "Safe: runs behind nginx TLS reverse proxy. Root needed for port binding.",
     label |-> "Dockerfile:31"],
    [key |-> "AZtta9esToFX3SmMQ7zi", resolution |-> "SAFE",
     comment |-> "Safe: runs behind nginx TLS reverse proxy. Root needed for port binding.",
     label |-> "docker/nginx/Dockerfile:27"],
    [key |-> "AZvFb10AGX_5sAzcrR2d", resolution |-> "SAFE",
     comment |-> "Safe: runs behind nginx TLS reverse proxy. Root needed for port binding.",
     label |-> "docker/storybook/Dockerfile:19"],
    [key |-> "AZureTQQrVcAIc1a_eDT", resolution |-> "SAFE",
     comment |-> "Safe: Math.random() in seeders/dev scripts for dummy data only. Not security-sensitive.",
     label |-> "server/scripts/generateDummyData.js:89"],
    [key |-> "AZureTQQrVcAIc1a_eDU", resolution |-> "SAFE",
     comment |-> "Safe: Math.random() in seeders/dev scripts for dummy data only. Not security-sensitive.",
     label |-> "server/scripts/generateDummyData.js:97"],
    [key |-> "AZureTQQrVcAIc1a_eDV", resolution |-> "SAFE",
     comment |-> "Safe: Math.random() in seeders/dev scripts for dummy data only. Not security-sensitive.",
     label |-> "server/scripts/generateDummyData.js:101"],
    [key |-> "AZureTQQrVcAIc1a_eDW", resolution |-> "SAFE",
     comment |-> "Safe: Math.random() in seeders/dev scripts for dummy data only. Not security-sensitive.",
     label |-> "server/scripts/generateDummyData.js:101"],
    [key |-> "AZureTQQrVcAIc1a_eDX", resolution |-> "SAFE",
     comment |-> "Safe: Math.random() in seeders/dev scripts for dummy data only. Not security-sensitive.",
     label |-> "server/scripts/generateDummyData.js:105"],
    [key |-> "AZureTQQrVcAIc1a_eDY", resolution |-> "SAFE",
     comment |-> "Safe: Math.random() in seeders/dev scripts for dummy data only. Not security-sensitive.",
     label |-> "server/scripts/generateDummyData.js:129"],
    [key |-> "AZureTQQrVcAIc1a_eDZ", resolution |-> "SAFE",
     comment |-> "Safe: Math.random() in seeders/dev scripts for dummy data only. Not security-sensitive.",
     label |-> "server/scripts/generateDummyData.js:303"],
    [key |-> "AZureTQQrVcAIc1a_eDa", resolution |-> "SAFE",
     comment |-> "Safe: Math.random() in seeders/dev scripts for dummy data only. Not security-sensitive.",
     label |-> "server/scripts/generateDummyData.js:414"],
    [key |-> "AZtta9bRToFX3SmMQ7wq", resolution |-> "SAFE",
     comment |-> "Safe: Math.random() in seeders/dev scripts for dummy data only. Not security-sensitive.",
     label |-> "server/services/system/performance-optimizer.js:154"],
    [key |-> "AZu6z_p1DaPmVvDt6v2Q", resolution |-> "SAFE",
     comment |-> "Safe: Math.random() for UI element IDs. Not security-sensitive.",
     label |-> "src/components/BackupManagementView.tsx:206"],
    [key |-> "AZwZ6l2asWcbYLKTEKB9", resolution |-> "SAFE",
     comment |-> "Safe: Math.random() for UI element IDs. Not security-sensitive.",
     label |-> "src/components/SimpleRestoreView.tsx:566"],
    [key |-> "AZtta9K8ToFX3SmMQ7Y3", resolution |-> "SAFE",
     comment |-> "Safe: Math.random() for UI element IDs. Not security-sensitive.",
     label |-> "src/components/ui/sidebar.tsx:653"],
    [key |-> "AZtta9f2ToFX3SmMQ71V", resolution |-> "SAFE",
     comment |-> "Safe: HTTP for local dev server. Production uses nginx TLS termination.",
     label |-> "server_modern.js:101"],
    [key |-> "AZtta9f2ToFX3SmMQ71X", resolution |-> "SAFE",
     comment |-> "Safe: HTTP for local dev server. Production uses nginx TLS termination.",
     label |-> "server_modern.js:102"],
    [key |-> "AZtta9UwToFX3SmMQ7kp", resolution |-> "SAFE",
     comment |-> "Safe: HTTP URL is a placeholder/reference constant. Not used for network requests.",
     label |-> "src/lib/academic-constants.ts:118"],
    [key |-> "AZtta9flToFX3SmMQ70z", resolution |-> "SAFE",
     comment |-> "Acknowledged: version tags for official GitHub Actions. Acceptable risk.",
     label |-> ".github/workflows/deploy.yml:33"],
    [key |-> "AZtta9flToFX3SmMQ700", resolution |-> "SAFE",
     comment |-> "Acknowledged: version tags for official GitHub Actions. Acceptable risk.",
     label |-> ".github/workflows/deploy.yml:36"],
    [key |-> "AZtta9flToFX3SmMQ701", resolution |-> "SAFE",
     comment |-> "Acknowledged: version tags for official GitHub Actions. Acceptable risk.",
     label |-> ".github/workflows/deploy.yml:43"],
    [key |-> "AZtta9flToFX3SmMQ702", resolution |-> "SAFE",
     comment |-> "Acknowledged: version tags for official GitHub Actions. Acceptable risk.",
     label |-> ".github/workflows/deploy.yml:51"],
    [key |-> "AZtta9fsToFX3SmMQ703", resolution |-> "SAFE",
     comment |-> "Acknowledged: version tags for official GitHub Actions. Acceptable risk.",
     label |-> ".github/workflows/docker-build.yml:31"],
    [key |-> "AZtta9fsToFX3SmMQ704", resolution |-> "SAFE",
     comment |-> "Acknowledged: version tags for official GitHub Actions. Acceptable risk.",
     label |-> ".github/workflows/docker-build.yml:34"],
    [key |-> "AZtta9fsToFX3SmMQ705", resolution |-> "SAFE",
     comment |-> "Acknowledged: version tags for official GitHub Actions. Acceptable risk.",
     label |-> ".github/workflows/docker-build.yml:41"],
    [key |-> "AZtta9fsToFX3SmMQ706", resolution |-> "SAFE",
     comment |-> "Acknowledged: version tags for official GitHub Actions. Acceptable risk.",
     label |-> ".github/workflows/docker-build.yml:52"],
    [key |-> "AZwO6O17ybMbdSR7yWhk", resolution |-> "SAFE",
     comment |-> "Safe: Express version disclosure in test file only. Not exposed in production.",
     label |-> "server/routes/__tests__/downloadRoutes.test.js:29"],
    [key |-> "AZuL793iZodQflqetGFl", resolution |-> "SAFE",
     comment |-> "Safe: Hardcoded IPs in test fixtures (192.168.x.x) and localhost detection. Not production config.",
     label |-> "server/__tests__/auth.test.js:69"],
    [key |-> "AZuL793iZodQflqetGFm", resolution |-> "SAFE",
     comment |-> "Safe: Hardcoded IPs in test fixtures (192.168.x.x) and localhost detection. Not production config.",
     label |-> "server/__tests__/auth.test.js:75"],
    [key |-> "AZuL793iZodQflqetGFn", resolution |-> "SAFE",
     comment |-> "Safe: Hardcoded IPs in test fixtures (192.168.x.x) and localhost detection. Not production config.",
     label |-> "server/__tests__/auth.test.js:85"],
    [key |-> "AZuL793iZodQflqetGFo", resolution |-> "SAFE",
     comment |-> "Safe: Hardcoded IPs in test fixtures (192.168.x.x) and localhost detection. Not production config.",
     label |-> "server/__tests__/auth.test.js:97"],
    [key |-> "AZtta9bkToFX3SmMQ7w3", resolution |-> "SAFE",
     comment |-> "Safe: Hardcoded IPs in test fixtures (192.168.x.x) and localhost detection. Not production config.",
     label |-> "server/services/system/security-system.js:669"],
    [key |-> "AZtta9bkToFX3SmMQ7w9", resolution |-> "SAFE",
     comment |-> "Safe: Hardcoded IPs in test fixtures (192.168.x.x) and localhost detection. Not production config.",
     label |-> "server/services/system/security-system.js:831"],
    [key |-> "AZwO6O81ybMbdSR7yWhm", resolution |-> "SAFE",
     comment |-> "Safe: /tmp usage in test file for temporary artifacts. Not production code.",
     label |-> "server/__tests__/queueSystem.test.js:35"]
  >>

N == Len(Table)

(* ---- environment ------------------------------------------------------ *)

(* Characters a SONAR_TOKEN value is drawn from, as the code points        *)
(* os.environ yields: 'a' (one UTF-8 byte), U+00E9 (two UTF-8 bytes), and  *)
(* U+DCFF, the lone surrogate that os.environ's surrogateescape decoding   *)
(* makes of the undecodable byte 0xFF.                                     *)
TokenChars == {97, 233, 56575}

RECURSIVE SeqsUpTo(_, _)
SeqsUpTo(S, n) ==
  IF n = 0 THEN {<<>>}
  ELSE LET shorter == SeqsUpTo(S, n - 1)
       IN  shorter \cup {Append(s, c) : s \in shorter, c \in S}

(* os.environ.get("SONAR_TOKEN", ""): unset and set-but-empty both give "" *)
Tokens == SeqsUpTo(TokenChars, MaxTokenLen)

(* str(e) of the exceptions urlopen raises: an HTTPError for a non-2xx     *)
(* answer and a URLError for a transport failure.                          *)
Errors == {"HTTP Error 401: Unauthorized", "<urlopen error timed out>"}

(* Behaviour of the remote end during one run.  Either the server answers  *)
(* every call except within a window of OutageLen consecutive rows, where  *)
(* each call may return or raise any error; or the server is down for the  *)
(* whole run and every call raises the same error.                         *)
Nets ==
  [kind : {"window"}, from : 1..N, err : {"any"}] \cup
  [kind : {"down"}, from : {0}, err : Errors]

MayReturn(net, i) == net.kind = "window"

MayRaise(net, i, e) ==
  \/ net.kind = "down" /\ e = net.err
  \/ net.kind = "window" /\ i >= net.from /\ i < net.from + OutageLen

(* ---- pure functions of review() --------------------------------------- *)

(* urllib.parse.urlencode(dict).encode(): the form body.  Percent-encoding *)
(* is invertible and is undone by the server's form parser, so the body is *)
(* represented by the ordered list of (name, value) fields it carries.     *)
urlencode(query) ==
  [i \in 1..Len(query) |-> [name |-> query[i][1], value |-> query[i][2]]]

(* str.encode() (UTF-8, strict): lone surrogates cannot be encoded. *)
IsSurrogate(c) == c >= 55296 /\ c <= 57343

CanEncode(s) == \A i \in 1..Len(s) : ~IsSurrogate(s[i])

Utf8Char(c) ==
  IF c < 128 THEN <<c>>
  ELSE IF c < 2048 THEN <<192 + (c \div 64), 128 + (c % 64)>>
  ELSE <<224 + (c \div 4096), 128 + ((c \div 64) % 64), 128 + (c % 64)>>

RECURSIVE encode(_)
encode(s) ==
  IF s = <<>> THEN <<>> ELSE Utf8Char(Head(s)) \o encode(Tail(s))

(* base64.b64encode(...).decode(): standard alphabet, '=' padding. *)
B64Alphabet ==
  << "A","B","C","D","E","F","G","H","I","J","K","L","M","N","O","P",
     "Q","R","S","T","U","V","W","X","Y","Z","a","b","c","d","e","f",
     "g","h","i","j","k","l","m","n","o","p","q","r","s","t","u","v",
     "w","x","y","z","0","1","2","3","4","5","6","7","8","9","+","/" >>

B64Char(v) == B64Alphabet[v + 1]

RECURSIVE b64encode(_)
b64encode(b) ==
  IF Len(b) = 0 THEN <<>>
  ELSE IF Len(b) = 1 THEN
    << B64Char(b[1] \div 4), B64Char((b[1] % 4) * 16), "=", "=" >>
  ELSE IF Len(b) = 2 THEN
    << B64Char(b[1] \div 4),
       B64Char((b[1] % 4) * 16 + (b[2] \div 16)),
       B64Char((b[2] % 16) * 4), "=" >>
  ELSE
    << B64Char(b[1] \div 4),
       B64Char((b[1] % 4) * 16 + (b[2] \div 16)),
       B64Char((b[2] % 16) * 4 + (b[3] \div 64)),
       B64Char(b[3] % 64) >> \o b64encode(SubSeq(b, 4, Len(b)))

(* f"Basic {cred}" as a sequence of characters. *)
BasicPrefix == << "B", "a", "s", "i", "c", " " >>

(* The request with the label sent in place of the comment. *)
BuildRequest_LabelAsComment(token, key, resolution, comment, label) ==
  LET data == urlencode(<< <<"hotspot", key>>,
                           <<"status", "REVIEWED">>,
                           <<"resolution", resolution>>,
                           <<"comment", label>> >>)
      cred == b64encode(encode(token \o <<58>>))
  IN  [url |-> API, method |-> "POST", data |-> data,
       headers |-> << [name |-> "Authorization",
                       value |-> BasicPrefix \o cred] >>]

(* lines 20-28: the request review() hands to urlopen. *)
BuildRequest(token, key, resolution, comment, label) ==
  LET data == urlencode(<< <<"hotspot", key>>,
                           <<"status", "REVIEWED">>,
                           <<"resolution", resolution>>,
                           <<"comment", comment>> >>)
      cred == b64encode(encode(token \o <<58>>))
  IN  [url |-> API, method |-> "POST", data |-> data,
       headers |-> << [name |-> "Authorization",
                       value |-> BasicPrefix \o cred] >>]

(* line 32 *)
OkLine(label) == "  OK: " \o label

(* line 35 *)
FailLine(label, e) == "  FAIL: " \o label \o " - " \o e

(* The summary with the success count as its own denominator. *)
SummaryLine_OkAsTotal(o, f) ==
  "Results: " \o ToString(o) \o "/" \o ToString(o)
    \o " succeeded, " \o ToString(f) \o " failed"

(* line 98 *)
SummaryLine(o, f) ==
  "Results: " \o ToString(o) \o "/" \o ToString(o + f)
    \o " succeeded, " \o ToString(f) \o " failed"

(* ---- state ------------------------------------------------------------ *)

VARIABLES
  TOKEN,     \* line 8: the token, a sequence of code points
  net,       \* the remote end's behaviour during this run
  pc,        \* "start" | "main" | "urlopen" | "exited"
  idx,       \* table row of the next (pc = "main") or current review call
  ok,        \* line 15
  fail,      \* line 15
  calls,     \* the review(...) invocations so far, as argument records
  sent,      \* the requests handed to urlopen so far
  inflight,  \* rows whose urlopen call has started and not yet finished
  results,   \* what each finished urlopen call did: "returned" or str(e)
  out,       \* lines printed to standard output
  uncaught,  \* exception that unwound the script, or "none"
  exitCode   \* process exit status, -1 while the process runs

vars == << TOKEN, net, pc, idx, ok, fail, calls, sent, inflight, results,
           out, uncaught, exitCode >>

Init ==
  /\ TOKEN \in Tokens
  /\ net \in Nets
  /\ pc = "start"
  /\ idx = 1
  /\ ok = 0
  /\ fail = 0
  /\ calls = <<>>
  /\ sent = <<>>
  /\ inflight = {}
  /\ results = <<>>
  /\ out = <<>>
  /\ uncaught = "none"
  /\ exitCode = -1

(* ---- actions ---------------------------------------------------------- *)

(* The credential check without its sys.exit(1). *)
CredentialMissing_NoExit ==
  /\ pc = "start"
  /\ TOKEN = <<>>
  /\ out' = out \o << "ERROR: Set SONAR_TOKEN env var first.",
                      "Get one from: https://sonarcloud.io/account/security" >>
  /\ pc' = "main"
  /\ UNCHANGED << TOKEN, net, idx, ok, fail, calls, sent, inflight, results,
                  uncaught, exitCode >>

(* lines 8-12: missing or empty token: two diagnostic lines, sys.exit(1). *)
CredentialMissing ==
  /\ pc = "start"
  /\ TOKEN = <<>>
  /\ out' = out \o << "ERROR: Set SONAR_TOKEN env var first.",
                      "Get one from: https://sonarcloud.io/account/security" >>
  /\ exitCode' = 1
  /\ pc' = "exited"
  /\ UNCHANGED << TOKEN, net, idx, ok, fail, calls, sent, inflight, results,
                  uncaught >>

(* lines 8-15: token present: fall through to ok = fail = 0. *)
CredentialPresent ==
  /\ pc = "start"
  /\ TOKEN # <<>>
  /\ ok' = 0
  /\ fail' = 0
  /\ pc' = "main"
  /\ UNCHANGED << TOKEN, net, idx, calls, sent, inflight, results, out,
                  uncaught, exitCode >>

(* review() that starts the HTTP call and moves on without waiting for it. *)
ReviewSend_NoWait ==
  /\ pc = "main"
  /\ idx <= N
  /\ CanEncode(TOKEN \o <<58>>)
  /\ LET row == Table[idx]
     IN  /\ calls' = Append(calls, row)
         /\ sent' = Append(sent, BuildRequest(TOKEN, row.key, row.resolution,
                                              row.comment, row.label))
  /\ inflight' = inflight \cup {idx}
  /\ idx' = idx + 1
  /\ UNCHANGED << TOKEN, net, pc, ok, fail, results, out, uncaught, exitCode >>

(* lines 37-95 calling lines 17-30: the next row's review(...) builds the  *)
(* request and enters urlopen, which blocks.                               *)
ReviewSend ==
  /\ pc = "main"
  /\ idx <= N
  /\ CanEncode(TOKEN \o <<58>>)
  /\ LET row == Table[idx]
     IN  /\ calls' = Append(calls, row)
         /\ sent' = Append(sent, BuildRequest(TOKEN, row.key, row.resolution,
                                              row.comment, row.label))
  /\ inflight' = inflight \cup {idx}
  /\ pc' = "urlopen"
  /\ UNCHANGED << TOKEN, net, idx, ok, fail, results, out, uncaught, exitCode >>

(* lines 37-95 calling lines 17-27: f"{TOKEN}:".encode() raises            *)
(* UnicodeEncodeError on line 27, before the try of line 29.  Nothing      *)
(* catches it: the interpreter prints a traceback and exits with status 1. *)
ReviewEncodeError ==
  /\ pc = "main"
  /\ idx <= N
  /\ ~CanEncode(TOKEN \o <<58>>)
  /\ calls' = Append(calls, Table[idx])
  /\ uncaught' = "UnicodeEncodeError"
  /\ exitCode' = 1
  /\ pc' = "exited"
  /\ UNCHANGED << TOKEN, net, idx, ok, fail, sent, inflight, results, out >>

(* The success path without its print. *)
UrlopenReturn_NoLine ==
  /\ pc = "urlopen"
  /\ MayReturn(net, idx)
  /\ inflight' = inflight \ {idx}
  /\ results' = Append(results, "returned")
  /\ ok' = ok + 1
  /\ idx' = idx + 1
  /\ pc' = "main"
  /\ UNCHANGED << TOKEN, net, fail, calls, sent, out, uncaught, exitCode >>

(* lines 30-32: urlopen returned. *)
UrlopenReturn ==
  /\ pc = "urlopen"
  /\ MayReturn(net, idx)
  /\ inflight' = inflight \ {idx}
  /\ results' = Append(results, "returned")
  /\ ok' = ok + 1
  /\ out' = Append(out, OkLine(Table[idx].label))
  /\ idx' = idx + 1
  /\ pc' = "main"
  /\ UNCHANGED << TOKEN, net, fail, calls, sent, uncaught, exitCode >>

(* review() without the except clause: the exception unwinds the script. *)
UrlopenRaise_Propagates ==
  /\ pc = "urlopen"
  /\ \E e \in Errors :
       /\ MayRaise(net, idx, e)
       /\ results' = Append(results, e)
  /\ inflight' = inflight \ {idx}
  /\ uncaught' = "Exception"
  /\ exitCode' = 1
  /\ pc' = "exited"
  /\ UNCHANGED << TOKEN, net, idx, ok, fail, calls, sent, out >>

(* review() with ok += 1 placed before the urlopen call. *)
UrlopenRaise_CountsBoth ==
  /\ pc = "urlopen"
  /\ \E e \in Errors :
       /\ MayRaise(net, idx, e)
       /\ results' = Append(results, e)
       /\ out' = Append(out, FailLine(Table[idx].label, e))
  /\ inflight' = inflight \ {idx}
  /\ ok' = ok + 1
  /\ fail' = fail + 1
  /\ idx' = idx + 1
  /\ pc' = "main"
  /\ UNCHANGED << TOKEN, net, calls, sent, uncaught, exitCode >>

(* lines 30, 33-35: urlopen raised an Exception e. *)
UrlopenRaise ==
  /\ pc = "urlopen"
  /\ \E e \in Errors :
       /\ MayRaise(net, idx, e)
       /\ results' = Append(results, e)
       /\ out' = Append(out, FailLine(Table[idx].label, e))
  /\ inflight' = inflight \ {idx}
  /\ fail' = fail + 1
  /\ idx' = idx + 1
  /\ pc' = "main"
  /\ UNCHANGED << TOKEN, net, ok, calls, sent, uncaught, exitCode >>

(* lines 97-98, then the end of the script: exit status 0. *)
Summary ==
  /\ pc = "main"
  /\ idx > N
  /\ out' = out \o << "", SummaryLine(ok, fail) >>
  /\ exitCode' = 0
  /\ pc' = "exited"
  /\ UNCHANGED << TOKEN, net, idx, ok, fail, calls, sent, inflight, results,
                  uncaught >>

Next ==
  \/ CredentialMissing
  \/ CredentialPresent
  \/ ReviewSend
  \/ ReviewEncodeError
  \/ UrlopenReturn
  \/ UrlopenRaise
  \/ Summary

Spec == Init /\ [][Next]_vars

(* Every HTTP call eventually returns or raises, and the interpreter keeps *)
(* executing the script's statements.                                      *)
LiveSpec == Spec /\ WF_vars(Next)

(* ======================================================================= *)
(* Properties                                                              *)
(* ======================================================================= *)

(* ---- helpers used by the properties only ------------------------------ *)

TokenPresent == TOKEN # <<>>

IsReturned(r) == r = "returned"

IsRaised(r) == r \in Errors

NumReturned(s) == Cardinality({i \in 1..Len(s) : IsReturned(s[i])})

NumRaised(s) == Cardinality({i \in 1..Len(s) : IsRaised(s[i])})

(* Base64 text back to bytes. *)
B64Value(ch) == CHOOSE v \in 0..63 : B64Alphabet[v + 1] = ch

RECURSIVE B64Decode(_)
B64Decode(t) ==
  IF Len(t) < 4 THEN <<>>
  ELSE LET a == B64Value(t[1])
           b == B64Value(t[2])
           rest == B64Decode(SubSeq(t, 5, Len(t)))
       IN  IF t[3] = "=" THEN << a * 4 + (b \div 16) >>
           ELSE IF t[4] = "=" THEN
             << a * 4 + (b \div 16),
                (b % 16) * 16 + (B64Value(t[3]) \div 4) >>
           ELSE
             << a * 4 + (b \div 16),
                (b % 16) * 16 + (B64Value(t[3]) \div 4),
                (B64Value(t[3]) % 4) * 64 + B64Value(t[4]) >> \o rest

(* UTF-8 bytes back to code points. *)
RECURSIVE Utf8Decode(_)
Utf8Decode(b) ==
  IF b = <<>> THEN <<>>
  ELSE IF b[1] < 128 THEN <<b[1]>> \o Utf8Decode(SubSeq(b, 2, Len(b)))
  ELSE IF b[1] < 224 THEN
    << (b[1] - 192) * 64 + (b[2] - 128) >> \o Utf8Decode(SubSeq(b, 3, Len(b)))
  ELSE
    << (b[1] - 224) * 4096 + (b[2] - 128) * 64 + (b[3] - 128) >>
      \o Utf8Decode(SubSeq(b, 4, Len(b)))

(* The "user:password" text a Basic Authorization header value carries. *)
BasicUserPass(value) == Utf8Decode(B64Decode(SubSeq(value, 7, Len(value))))

(* ---- C1 --------------------------------------------------------------- *)

(* C1: with SONAR_TOKEN absent or empty the script never calls review or   *)
(* urlopen (no call recorded, no request sent, none in flight), it can     *)
(* only be at the credential check or exited, and once it has left the     *)
(* check it has exited with status 1.                                      *)
C1_NoTokenNoNetwork ==
  (TOKEN = <<>>) =>
    /\ calls = <<>>
    /\ sent = <<>>
    /\ inflight = {}
    /\ results = <<>>
    /\ pc \in {"start", "exited"}
    /\ (pc = "start" => exitCode = -1)
    /\ (pc = "exited" => exitCode = 1)

C1_Witness ==
  /\ TOKEN = <<>>
  /\ pc = "exited"
  /\ exitCode = 1
  /\ Len(out) = 2
  /\ sent = <<>>

(* ---- C2 --------------------------------------------------------------- *)

(* C2: with the credential present, review is invoked for the table rows   *)
(* in table order, each at most once and with resolution "SAFE", and a run *)
(* that has ended has invoked it for every row of the table.               *)
C2_EveryEntryOnceInOrder ==
  TokenPresent =>
    /\ Len(calls) <= N
    /\ \A i \in 1..Len(calls) :
         calls[i] = Table[i] /\ calls[i].resolution = "SAFE"
    /\ (pc = "exited" => calls = Table)

(* ---- C3 --------------------------------------------------------------- *)

(* C3: a step in which the HTTP call of row idx raises error e adds one to *)
(* fail, leaves ok alone, prints "  FAIL: <label> - <e>" as the only new   *)
(* line, and leaves the script running, uncrashed, at the next row.        *)
C3_RaiseCountedAndSwallowed ==
  [][ (Len(results') = Len(results) + 1 /\ IsRaised(results'[Len(results')]))
      => /\ fail' = fail + 1
         /\ ok' = ok
         /\ out' = Append(out, "  FAIL: " \o Table[idx].label \o " - "
                                 \o results'[Len(results')])
         /\ uncaught' = "none"
         /\ exitCode' = -1
         /\ pc' = "main"
         /\ idx' = idx + 1
         /\ inflight' = {} ]_vars

(* A call raised and a later row was submitted all the same. *)
C3_Witness ==
  \E i \in 1..Len(results) :
    /\ IsRaised(results[i])
    /\ Len(sent) > i
    /\ fail >= 1

(* ---- C4 --------------------------------------------------------------- *)

(* C4: a step in which the HTTP call of row idx returns adds one to ok,    *)
(* leaves fail alone and prints "  OK: <label>" as the only new line.      *)
C4_ReturnCounted ==
  [][ (Len(results') = Len(results) + 1 /\ IsReturned(results'[Len(results')]))
      => /\ ok' = ok + 1
         /\ fail' = fail
         /\ out' = Append(out, "  OK: " \o Table[idx].label) ]_vars

(* A call returned (after an earlier one raised). *)
C4_Witness ==
  /\ Len(results) >= 2
  /\ IsReturned(results[Len(results)])
  /\ IsRaised(results[Len(results) - 1])
  /\ ok >= 1
  /\ pc = "main"

(* ---- C5 --------------------------------------------------------------- *)

(* C5: with the credential present, before the summary there is exactly    *)
(* one printed line per completed call; the summary (a blank line and the  *)
(* "Results:" line) is printed only when all N calls have completed, and   *)
(* reads <returned calls>/<N> succeeded, <raised calls> failed, these      *)
(* being the values of ok and fail.                                        *)
C5_SummaryAfterAllAndAccurate ==
  TokenPresent =>
    /\ (~(pc = "exited" /\ exitCode = 0) => Len(out) = Len(results))
    /\ (pc = "exited" /\ exitCode = 0) =>
         /\ Len(results) = N
         /\ inflight = {}
         /\ Len(out) = N + 2
         /\ out[N + 1] = ""
         /\ ok = NumReturned(results)
         /\ fail = NumRaised(results)
         /\ out[N + 2] = "Results: " \o ToString(ok) \o "/" \o ToString(N)
                           \o " succeeded, " \o ToString(fail) \o " failed"

(* A finished run with a mix of outcomes. *)
C5_Witness ==
  /\ pc = "exited"
  /\ exitCode = 0
  /\ ok = N - 1
  /\ fail = 1
  /\ out[Len(out)] = "Results: 58/59 succeeded, 1 failed"

(* ---- C6 --------------------------------------------------------------- *)

(* C6: with the credential present the script never ends with a non-zero   *)
(* exit status and no exception unwinds it.                                *)
C6_NonZeroOnlyIfTokenMissing ==
  TokenPresent => (exitCode \in {-1, 0} /\ uncaught = "none")

(* ---- C7 --------------------------------------------------------------- *)

(* C7: at most one HTTP call is in flight; while the call of row i is in   *)
(* flight it is the last request sent, and the calls of all rows before i  *)
(* have completed, have been counted and have had their line printed.      *)
C7_NoOverlap ==
  /\ Cardinality(inflight) <= 1
  /\ \A i \in inflight :
       /\ i = Len(sent)
       /\ Len(results) = i - 1
       /\ ok + fail = i - 1
       /\ Len(out) = i - 1
  /\ (inflight = {} => Len(results) = Len(sent))

(* The second row's call is in flight. *)
C7_Witness ==
  /\ inflight = {2}
  /\ pc = "urlopen"
  /\ Len(results) = 1

(* ---- C8 --------------------------------------------------------------- *)

(* C8: the i-th request sent is a POST to the fixed endpoint whose body is *)
(* exactly hotspot=<key of row i>, status=REVIEWED, resolution=SAFE,       *)
(* comment=<comment of row i>, with one header, Authorization, whose value *)
(* is "Basic " followed by base64 text that decodes to the token followed  *)
(* by ":" and nothing else; the row's label is no part of the request.     *)
C8_RequestShape ==
  /\ \A v \in {sent[k].headers[1].value : k \in 1..Len(sent)} :
       /\ SubSeq(v, 1, 6) = << "B", "a", "s", "i", "c", " " >>
       /\ BasicUserPass(v) = TOKEN \o <<58>>
  /\ \A i \in 1..Len(sent) :
    LET req == sent[i]
        row == Table[i]
    IN  /\ req.url = "https://sonarcloud.io/api/hotspots/change_status"
        /\ req.method = "POST"
        /\ req.data = << [name |-> "hotspot", value |-> row.key],
                         [name |-> "status", value |-> "REVIEWED"],
                         [name |-> "resolution", value |-> "SAFE"],
                         [name |-> "comment", value |-> row.comment] >>
        /\ Len(req.headers) = 1
        /\ req.headers[1].name = "Authorization"
        /\ \A j \in 1..Len(req.data) : req.data[j].value # row.label
        /\ req.url # row.label

(* Requests for the two rows that share a label have been sent, with a     *)
(* token that takes two bytes in UTF-8.                                    *)
C8_Witness ==
  /\ Len(sent) >= 32
  /\ Table[31].label = Table[32].label
  /\ \E i \in 1..Len(TOKEN) : TOKEN[i] > 127

(* ---- C9 --------------------------------------------------------------- *)

(* C9: when every HTTP call eventually returns or raises, a run with the   *)
(* credential present eventually has all N calls completed, the summary    *)
(* printed once and the process exited; and while a call is in flight no   *)
(* further request is sent and nothing is printed.                         *)
C9_TerminatesUnlessCallHangs ==
  /\ TokenPresent ~> (/\ pc = "exited"
                      /\ Len(results) = N
                      /\ Len(out) = N + 2
                      /\ out[N + 2] = SummaryLine(ok, fail))
  /\ [][ (pc = "urlopen" /\ Len(results') = Len(results))
         => (sent' = sent /\ out' = out /\ pc' = "urlopen") ]_vars

(* ---- C10 -------------------------------------------------------------- *)

(* C10: ok and fail start at 0; between submissions ok + fail is the       *)
(* number of completed calls; neither counter ever decreases; and a step   *)
(* that completes a call changes exactly one of them, by exactly one.      *)
C10_CounterInvariant ==
  /\ (ok = 0 /\ fail = 0)
  /\ [](pc \in {"main", "exited"} => ok + fail = Len(results))
  /\ [](ok >= 0 /\ fail >= 0)
  /\ [][ /\ ok' >= ok
         /\ fail' >= fail
         /\ (Len(results') = Len(results) + 1 =>
               \/ (ok' = ok + 1 /\ fail' = fail)
               \/ (ok' = ok /\ fail' = fail + 1))
         /\ (Len(results') = Len(results) => (ok' = ok /\ fail' = fail)) ]_vars

(* Both counters have moved. *)
C10_Witness ==
  /\ pc = "main"
  /\ ok >= 1
  /\ fail >= 2
  /\ ok + fail = Len(results)

====
